---- MODULE Spec2Model ----
(***************************************************************************)
(* Model of the real-time chat / presence subsystem of the mentor-matrix   *)
(* backend: src/src/socket/socket.js (socket.io event handlers and their   *)
(* process-wide Maps) together with the HTTP message controller            *)
(* (message.controller.js) and the Message schema it persists through.     *)
(*                                                                         *)
(* A JavaScript Map is a TLA+ function whose DOMAIN is the set of keys     *)
(* the Map holds.  A handler that awaits getUserDetails is split at the    *)
(* await: the synchronous prefix is one action, the continuation a second  *)
(* one (ResumeHandler), and any other handler may run in between.          *)
(* Timers fire exactly at their deadline: no handler runs and no time      *)
(* passes while a timer is due.                                            *)
(***************************************************************************)
EXTENDS Integers, Sequences, FiniteSets, Bags, TLC

VARIABLES
    status,             \* connection id -> "idle" | "open" | "closed"
    onlineUsers,        \* Map: connection id or userId -> connection id
    socketIdToUserId,   \* Map: connection id -> userId
    userRooms,          \* Map: identity -> set of chat ids
    joined,             \* socket.io adapter: connection id -> rooms joined
    messageRateLimits,  \* Map: identity -> [count, timestamp]
    userCache,          \* Map: userId -> cached profile
    timers,             \* bag of pending setTimeout callbacks [userId, at]
    now,                \* Date.now()
    pending,            \* handlers suspended at `await getUserDetails`
    messages,           \* the Message collection, in creation order
    out,                \* what the last step emitted (events, acks)
    last,               \* the event the last step handled
    attempts,           \* history: sendMessage events that passed validation
    lastOp,             \* history: last joinChat/leaveChat per (identity, room)
    recordedBy,         \* history: memberships a connection's joinChat recorded
    hadJoined,          \* history: rooms a connection has joined at some time
    storedAt,           \* history: userId -> time its profile was last cached
    insertedAt,         \* history: userId -> time its cache entry was inserted
    projects,           \* the Project collection: project id -> document
    chats,              \* the Chat collection, in creation order
    calls,              \* HTTP handlers suspended at an await
    nextCall,           \* number of HTTP handlers suspended so far
    nextSeq,            \* number of handler invocations suspended so far
    budget              \* client events the environment may still send

vars == <<status, onlineUsers, socketIdToUserId, userRooms, joined,
          messageRateLimits, userCache, timers, now, pending, messages,
          out, last, attempts, lastOp, recordedBy, hadJoined, storedAt,
          insertedAt, projects, chats, calls, nextCall, nextSeq, budget>>

(***************************************************************************)
(* Bounds of the model and constants of the program.                       *)
(***************************************************************************)
MaxEvents == 3          \* client events per behaviour of Spec
MaxChatEvents == 3      \* client events per behaviour of SpecChat
MaxRateEvents == 9      \* client events per behaviour of SpecRate
MaxCacheEvents == 4     \* client events per behaviour of SpecCache
MaxStoreEvents == 4     \* client events per behaviour of SpecStore
MaxBurstEvents == 12    \* client events per behaviour of SpecBurst
MaxSharedEvents == 8    \* client events per behaviour of SpecShared
MaxMentorOps == 5       \* HTTP requests per behaviour of SpecMentor
MaxGroupOps == 3        \* HTTP requests and createGroup calls per behaviour of SpecGroup
MaxInFlight == 2        \* handlers suspended at the same time

RateWindow == 1000      \* ms, isRateLimited
RateLimit == 5          \* messages per window, isRateLimited
CacheTtl == 300000      \* ms, 5 * 60 * 1000 in getUserDetails
MaxContentLength == 500 \* HTTP sendMessage

TickStep == RateWindow \div 2

None == "none"
Fetching == [id |-> "fetching", name |-> "none"]   \* findById not settled yet
NoProfile == [id |-> "none", name |-> "none"]      \* getUserDetails returned null
UnknownUser == "Unknown User"

Conns == {"c1", "c2"}
Users == {"u1", "u2", "u3"}
StoreUsers == {"u1", "u2"}          \* documents of the User collection
SocketUserIds == {"u1", "u3"}       \* userIds clients send in authenticate
Rooms == {"r1", "r2"}
Chats == Rooms                      \* documents of the Chat collection
Ids == Conns \cup Users             \* resolved identities

UserName(u) == IF u = "u1" THEN "Alice" ELSE IF u = "u2" THEN "Bob" ELSE None
ContentLength(content) == IF content = "long" THEN MaxContentLength + 1 ELSE 2

(***************************************************************************)
(* Map helpers.                                                            *)
(***************************************************************************)
MapSet(m, k, v) == [x \in DOMAIN m \cup {k} |-> IF x = k THEN v ELSE m[x]]
MapDelete(m, k) == [x \in DOMAIN m \ {k} |-> m[x]]
EmptyMap == [x \in {} |-> None]

RoomsOf(id) == IF id \in DOMAIN userRooms THEN userRooms[id] ELSE {}
Pairs(rooms) == {p \in Ids \X Rooms : p[1] \in DOMAIN rooms /\ p[2] \in rooms[p[1]]}

\* the binding is ignored: every handler acts under socket.id
socketIdOnly(c) == c

\* socketIdToUserId.get(socket.id) || socket.id
ResolveIdentity(c) ==
    IF c \in DOMAIN socketIdToUserId THEN socketIdToUserId[c] ELSE c

(***************************************************************************)
(* Emissions.  One record per event and recipient.                         *)
(***************************************************************************)
Event(ev, to, from) ==
    [ev |-> ev, to |-> to, from |-> from, chatId |-> None, content |-> None,
     senderId |-> None, sender |-> None, name |-> None, status |-> None,
     code |-> None, user |-> None]

RoomMembers(chatId) == {d \in Conns : chatId \in joined[d]}
\* io.emit: every connected socket, whatever the room
IoEmit(chatId) == {d \in Conns : status[d] = "open"}
\* io.to(chatId)
IoTo(chatId) == RoomMembers(chatId)
\* io.to(chatId) where the code has socket.to(chatId): the sender is included
SocketToWithSender(c, chatId) == RoomMembers(chatId)
\* socket.to(chatId)
SocketTo(c, chatId) == RoomMembers(chatId) \ {c}
\* io.emit where the code has socket.broadcast.emit: the sender is included
SocketBroadcastAll(c) == {d \in Conns : status[d] = "open"}
\* socket.broadcast
SocketBroadcast(c) == {d \in Conns : status[d] = "open"} \ {c}

NoEvent == [op |-> "none", conn |-> None, chatId |-> None, content |-> None,
            cb |-> FALSE, userId |-> None, fetch |-> None, seq |-> 0,
            persist |-> None, project |-> None, decision |-> None, chat |-> 0,
            reply |-> None]

TimerDue == \E t \in BagToSet(timers) : t.at <= now
\* `await getUserDetails(userId)` on a cache hit awaits a promise that is
\* already resolved: the continuation is a microtask, and it runs before the
\* next event or timer is handled.
MicrotaskQueued == \E p \in pending : p.cached # Fetching
Ready == ~TimerDue /\ ~MicrotaskQueued

\* The state after initializeSocket, with `b` client events to come.
InitWith(b) ==
    /\ status = [c \in Conns |-> "idle"]
    /\ onlineUsers = EmptyMap
    /\ socketIdToUserId = EmptyMap
    /\ userRooms = EmptyMap
    /\ joined = [c \in Conns |-> {}]
    /\ messageRateLimits = EmptyMap
    /\ userCache = EmptyMap
    /\ timers = EmptyBag
    /\ now = 0
    /\ pending = {}
    /\ messages = <<>>
    /\ out = {}
    /\ last = NoEvent
    /\ attempts = <<>>
    /\ lastOp = [p \in Ids \X Rooms |-> "none"]
    /\ recordedBy = [c \in Conns |-> {}]
    /\ hadJoined = [c \in Conns |-> {}]
    /\ storedAt = EmptyMap
    /\ insertedAt = EmptyMap
    /\ projects = EmptyMap
    /\ chats = <<>>
    /\ calls = {}
    /\ nextCall = 0
    /\ nextSeq = 0
    /\ budget = b

Init == InitWith(MaxEvents)

\* A session under way, as Spec reaches it: c1 and c2 are connected, c1 has
\* authenticated as u1 (whose profile the pre-fetch has cached) and joined r1,
\* c2 has joined r1 without authenticating.
Established ==
    /\ status = [c \in Conns |-> "open"]
    /\ onlineUsers = ("c1" :> "c1") @@ ("c2" :> "c2") @@ ("u1" :> "c1")
    /\ socketIdToUserId = ("c1" :> "u1")
    /\ userRooms = ("u1" :> {"r1"}) @@ ("c2" :> {"r1"})
    /\ joined = [c \in Conns |-> {"r1"}]
    /\ messageRateLimits = EmptyMap
    /\ userCache = ("u1" :> [id |-> "u1", name |-> UserName("u1")])
    /\ timers = SetToBag({[userId |-> "u1", at |-> CacheTtl]})
    /\ now = 0
    /\ pending = {}
    /\ messages = <<>>
    /\ attempts = <<>>
    /\ lastOp = [p \in Ids \X Rooms |->
                   IF p \in {<<"u1", "r1">>, <<"c2", "r1">>} THEN "join" ELSE "none"]
    /\ recordedBy = ("c1" :> {<<"u1", "r1">>}) @@ ("c2" :> {<<"c2", "r1">>})
    /\ hadJoined = [c \in Conns |-> {"r1"}]
    /\ storedAt = ("u1" :> 0)
    /\ insertedAt = ("u1" :> 0)
    /\ projects = EmptyMap
    /\ chats = <<>>
    /\ calls = {}
    /\ nextCall = 0
    /\ nextSeq = 1

EstablishedWith(b) ==
    /\ Established
    /\ out = {}
    /\ last = NoEvent
    /\ budget = b

(***************************************************************************)
(* 1. Room management.                                                     *)
(***************************************************************************)
addUserToRoom(rooms, userId, chatId) ==
    LET withEntry == IF userId \in DOMAIN rooms THEN rooms
                     ELSE MapSet(rooms, userId, {})
    IN  MapSet(withEntry, userId, withEntry[userId] \cup {chatId})

\* the room is deleted from the set and the set is kept, empty or not
removeRoomKeepEntry(rooms, userId, chatId) ==
    IF userId \in DOMAIN rooms
    THEN MapSet(rooms, userId, rooms[userId] \ {chatId})
    ELSE rooms

\* userRooms.delete(userId) where the room alone should go
removeUserEntry(rooms, userId, chatId) == MapDelete(rooms, userId)

removeUserFromRoom(rooms, userId, chatId) ==
    LET deleted == IF userId \in DOMAIN rooms
                   THEN MapSet(rooms, userId, rooms[userId] \ {chatId})
                   ELSE rooms
    IN  IF userId \in DOMAIN deleted /\ deleted[userId] = {}
        THEN MapDelete(deleted, userId)
        ELSE deleted

\* The memberships a connection recorded that the table still holds.
Remaining(rb, rooms) == [c \in Conns |-> rb[c] \cap Pairs(rooms)]

(***************************************************************************)
(* 2. Rate limiting.  isRateLimited returns a verdict and leaves the table *)
(* changed: the entry it reads is the object the Map holds, so the         *)
(* increment of a rejected call is kept, while the object made for a       *)
(* missing entry is stored only when the call returns false.               *)
(***************************************************************************)
\* `>=` where the code has `>`: the fifth message of a window is rejected
isRateLimitedOffByOne(table, userId, currentTime) ==
    LET userLimit == IF userId \in DOMAIN table THEN table[userId]
                     ELSE [count |-> 0, timestamp |-> currentTime]
        bumped == MapSet(table, userId, [userLimit EXCEPT !.count = @ + 1])
    IN  IF currentTime - userLimit.timestamp < RateWindow
        THEN IF userLimit.count + 1 >= RateLimit
             THEN [limited |-> TRUE,
                   table |-> IF userId \in DOMAIN table THEN bumped ELSE table]
             ELSE [limited |-> FALSE, table |-> bumped]
        ELSE [limited |-> FALSE,
              table |-> MapSet(table, userId,
                               [count |-> 1, timestamp |-> currentTime])]

\* the check without the record: the verdict is computed, the count is not kept
isRateLimitedCheckOnly(table, userId, currentTime) ==
    LET userLimit == IF userId \in DOMAIN table THEN table[userId]
                     ELSE [count |-> 0, timestamp |-> currentTime]
    IN  IF currentTime - userLimit.timestamp < RateWindow
        THEN [limited |-> userLimit.count + 1 > RateLimit,
              table |-> IF userId \in DOMAIN table THEN table
                        ELSE MapSet(table, userId, [userLimit EXCEPT !.count = 1])]
        ELSE [limited |-> FALSE,
              table |-> MapSet(table, userId,
                               [count |-> 1, timestamp |-> currentTime])]

\* every accepted call starts a new window
isRateLimitedRestarting(table, userId, currentTime) ==
    [limited |-> FALSE,
     table |-> MapSet(table, userId, [count |-> 1, timestamp |-> currentTime])]

isRateLimited(table, userId, currentTime) ==
    LET userLimit == IF userId \in DOMAIN table THEN table[userId]
                     ELSE [count |-> 0, timestamp |-> currentTime]
        timeDiff == currentTime - userLimit.timestamp
    IN  IF timeDiff < RateWindow
        THEN IF userLimit.count + 1 > RateLimit
             THEN [limited |-> TRUE,
                   table |-> IF userId \in DOMAIN table
                             THEN MapSet(table, userId,
                                         [userLimit EXCEPT !.count = @ + 1])
                             ELSE table]
             ELSE [limited |-> FALSE,
                   table |-> MapSet(table, userId,
                                    [userLimit EXCEPT !.count = @ + 1])]
        ELSE [limited |-> FALSE,
              table |-> MapSet(table, userId,
                               [count |-> 1, timestamp |-> currentTime])]

(***************************************************************************)
(* 3. Errors.                                                              *)
(***************************************************************************)
\* io.emit("error", ...): the error goes to every connection
sendErrorToAll(c, code) ==
    {[Event("error", d, c) EXCEPT !.code = code] : d \in Conns}

sendError(c, code) == {[Event("error", c, c) EXCEPT !.code = code]}

(***************************************************************************)
(* getUserDetails.  The synchronous prefix answers from the cache or       *)
(* starts User.findById; the fetch resolves later with a document, with    *)
(* null, or by throwing (a connection id is no ObjectId: the cast throws). *)
(***************************************************************************)
Profile(u) == [id |-> u, name |-> UserName(u)]

getUserDetailsStart(userId) ==
    IF userId \in DOMAIN userCache THEN userCache[userId] ELSE Fetching

FetchOutcomes(userId) ==
    IF userId \in StoreUsers THEN {"found", "throw"}
    ELSE IF userId \in Users THEN {"null", "throw"}
    ELSE {"throw"}

\* a missing user is cached like a found one, as the null getUserDetails returns
getUserDetailsNegativeCaching(userId, outcome) ==
    IF outcome \in {"found", "null"}
    THEN [cache  |-> MapSet(userCache, userId,
                            IF outcome = "found" THEN Profile(userId) ELSE NoProfile),
          timers |-> timers (+) SetToBag({[userId |-> userId, at |-> now + CacheTtl]}),
          stored |-> MapSet(storedAt, userId, now),
          result |-> IF outcome = "found" THEN Profile(userId) ELSE NoProfile]
    ELSE [cache |-> userCache, timers |-> timers, stored |-> storedAt,
          result |-> NoProfile]

\* The rest of getUserDetails once findById has settled with `outcome`.
getUserDetailsFinish(userId, outcome) ==
    IF outcome = "found"
    THEN [cache  |-> MapSet(userCache, userId, Profile(userId)),
          timers |-> timers (+) SetToBag({[userId |-> userId, at |-> now + CacheTtl]}),
          stored |-> MapSet(storedAt, userId, now),
          result |-> Profile(userId)]
    ELSE [cache |-> userCache, timers |-> timers, stored |-> storedAt,
          result |-> NoProfile]

(***************************************************************************)
(* Frames.                                                                 *)
(***************************************************************************)
registry == <<onlineUsers, socketIdToUserId>>
membership == <<userRooms, joined, lastOp, recordedBy, hadJoined>>
rateState == <<messageRateLimits, attempts>>
cacheState == <<userCache, timers, storedAt, insertedAt>>
suspended == <<pending, nextSeq>>
workflow == <<projects, chats, calls, nextCall>>

Spend == budget > 0 /\ budget' = budget - 1
CanSuspend == Cardinality(pending) < MaxInFlight

(***************************************************************************)
(* io.on("connection")                                                     *)
(***************************************************************************)
Connect(c) ==
    /\ Ready
    /\ status[c] = "idle"
    /\ status' = [status EXCEPT ![c] = "open"]
    /\ onlineUsers' = MapSet(onlineUsers, c, c)
    /\ out' = {[Event("userOnline", d, c) EXCEPT !.user = c] : d \in SocketBroadcast(c)}
    /\ last' = [NoEvent EXCEPT !.op = "connection", !.conn = c]
    /\ UNCHANGED <<workflow, socketIdToUserId, membership, rateState, cacheState, now,
                   suspended, messages, budget>>

(***************************************************************************)
(* socket.on("authenticate")                                               *)
(***************************************************************************)
\* the guard is dropped: any payload binds
isTruthyAlways(userId) == TRUE

\* if (userId)
isTruthy(userId) == userId # None

\* the first connection of a user keeps the entry
onlineUsersSetIfAbsent(users, userId, c) ==
    IF userId \in DOMAIN users THEN users ELSE MapSet(users, userId, c)

\* onlineUsers.set(userId, socket.id)
onlineUsersSet(users, userId, c) == MapSet(users, userId, c)

Authenticate(c, userId) ==
    /\ Ready
    /\ status[c] = "open"
    /\ Spend
    /\ out' = {}
    /\ last' = [NoEvent EXCEPT !.op = "authenticate", !.conn = c, !.userId = userId,
                  !.fetch = IF userId = None THEN None
                            ELSE IF getUserDetailsStart(userId) = Fetching
                                 THEN "query" ELSE "cached"]
    /\ IF ~isTruthy(userId)
       THEN UNCHANGED <<registry, suspended>>
       ELSE /\ socketIdToUserId' = MapSet(socketIdToUserId, c, userId)
            /\ onlineUsers' = onlineUsersSet(onlineUsers, userId, c)
            /\ IF getUserDetailsStart(userId) = Fetching
               THEN /\ CanSuspend
                    /\ nextSeq' = nextSeq + 1
                    /\ pending' = pending \cup
                         {[seq |-> nextSeq + 1, kind |-> "authenticate", conn |-> c,
                           chatId |-> None, content |-> None, userId |-> userId,
                           cb |-> FALSE, cached |-> Fetching]}
               ELSE UNCHANGED suspended
    /\ UNCHANGED <<workflow, status, membership, rateState, cacheState, now, messages>>

(***************************************************************************)
(* socket.on("joinChat") / socket.on("leaveChat")                          *)
(***************************************************************************)
JoinChat(c, chatId) ==
    /\ Ready
    /\ status[c] = "open"
    /\ Spend
    /\ LET userId == ResolveIdentity(c)
       IN  /\ joined' = [joined EXCEPT ![c] = @ \cup {chatId}]
           /\ userRooms' = addUserToRoom(userRooms, userId, chatId)
           /\ lastOp' = [lastOp EXCEPT ![<<userId, chatId>>] = "join"]
           /\ recordedBy' = [Remaining(recordedBy, userRooms') EXCEPT
                               ![c] = @ \cup {<<userId, chatId>>}]
           /\ hadJoined' = [hadJoined EXCEPT ![c] = @ \cup {chatId}]
           /\ last' = [NoEvent EXCEPT !.op = "joinChat", !.conn = c,
                                      !.chatId = chatId, !.userId = userId]
    /\ out' = {}
    /\ UNCHANGED <<workflow, status, registry, rateState, cacheState, now, suspended, messages>>

LeaveChat(c, chatId) ==
    /\ Ready
    /\ status[c] = "open"
    /\ Spend
    /\ LET userId == ResolveIdentity(c)
       IN  /\ joined' = [joined EXCEPT ![c] = @ \ {chatId}]
           /\ userRooms' = removeUserFromRoom(userRooms, userId, chatId)
           /\ lastOp' = [lastOp EXCEPT ![<<userId, chatId>>] = "leave"]
           /\ recordedBy' = Remaining(recordedBy, userRooms')
           /\ UNCHANGED hadJoined
           /\ last' = [NoEvent EXCEPT !.op = "leaveChat", !.conn = c,
                                      !.chatId = chatId, !.userId = userId]
    /\ out' = {}
    /\ UNCHANGED <<workflow, status, registry, rateState, cacheState, now, suspended, messages>>

(***************************************************************************)
(* socket.on("typing") / socket.on("stopTyping")                           *)
(***************************************************************************)
Typing(c, ev, chatId) ==
    /\ Ready
    /\ status[c] = "open"
    /\ Spend
    /\ out' = {[Event(ev, d, c) EXCEPT !.chatId = chatId] : d \in SocketTo(c, chatId)}
    /\ last' = [NoEvent EXCEPT !.op = ev, !.conn = c, !.chatId = chatId]
    /\ UNCHANGED <<workflow, status, registry, membership, rateState, cacheState, now,
                   suspended, messages>>

(***************************************************************************)
(* socket.on("sendMessage"): validation, identity, rate limit, and the     *)
(* call of getUserDetails at which the handler suspends.                   *)
(***************************************************************************)
SendMessage(c, chatId, content, cb) ==
    /\ Ready
    /\ status[c] = "open"
    /\ Spend
    /\ IF chatId = None \/ content = None
       THEN /\ out' = sendError(c, "MISSING_FIELDS")
            /\ last' = [NoEvent EXCEPT !.op = "sendMessage", !.conn = c,
                          !.chatId = chatId, !.content = content, !.cb = cb]
            /\ UNCHANGED <<rateState, suspended>>
       ELSE LET userId == ResolveIdentity(c)
                verdict == isRateLimited(messageRateLimits, userId, now)
            IN  /\ messageRateLimits' = verdict.table
                /\ attempts' = Append(attempts, [id |-> userId, conn |-> c, at |-> now,
                                                 ok |-> ~verdict.limited])
                /\ last' = [NoEvent EXCEPT !.op = "sendMessage", !.conn = c,
                              !.chatId = chatId, !.content = content, !.cb = cb,
                              !.userId = userId,
                              !.fetch = IF verdict.limited THEN None
                                        ELSE IF getUserDetailsStart(userId) = Fetching
                                             THEN "query" ELSE "cached",
                              !.seq = IF verdict.limited THEN 0 ELSE nextSeq + 1]
                /\ IF verdict.limited
                   THEN /\ out' = sendError(c, "RATE_LIMIT")
                        /\ UNCHANGED suspended
                   ELSE /\ CanSuspend
                        /\ out' = {}
                        /\ nextSeq' = nextSeq + 1
                        /\ pending' = pending \cup
                             {[seq |-> nextSeq + 1, kind |-> "sendMessage", conn |-> c,
                               chatId |-> chatId, content |-> content,
                               userId |-> userId, cb |-> cb,
                               cached |-> getUserDetailsStart(userId)]}
    /\ UNCHANGED <<workflow, status, registry, membership, cacheState, now, messages>>

\* `sender: userDetails` without the fallback object
receiveMessageNoFallback(p, userDetails) ==
    {[Event("receiveMessage", d, p.conn) EXCEPT
        !.chatId = p.chatId, !.senderId = p.userId,
        !.sender = userDetails.id, !.name = userDetails.name,
        !.content = p.content] : d \in IoTo(p.chatId)}

\* io.to(chatId).emit("receiveMessage", ...) and the acknowledgement
receiveMessage(p, userDetails) ==
    {[Event("receiveMessage", d, p.conn) EXCEPT
        !.chatId = p.chatId, !.senderId = p.userId,
        !.sender = IF userDetails = NoProfile THEN p.userId ELSE userDetails.id,
        !.name = IF userDetails = NoProfile THEN UnknownUser ELSE userDetails.name,
        !.content = p.content] : d \in IoTo(p.chatId)}

acknowledge(p) ==
    IF p.cb THEN {[Event("ack", p.conn, p.conn) EXCEPT !.status = "success"]} ELSE {}

(***************************************************************************)
(* The continuation of a handler suspended at `await getUserDetails`:      *)
(* the fetch settles, getUserDetails finishes, and a sendMessage handler   *)
(* broadcasts and acknowledges.  A continuation queued by a cache hit runs *)
(* first; one that waits for the store runs at any later point.            *)
(***************************************************************************)
ResumeHandler(p, outcome) ==
    /\ ~TimerDue
    /\ p \in pending
    /\ MicrotaskQueued => p.cached # Fetching
    /\ outcome \in (IF p.cached = Fetching THEN FetchOutcomes(p.userId) ELSE {"hit"})
    /\ LET fin == IF p.cached = Fetching
                  THEN getUserDetailsFinish(p.userId, outcome)
                  ELSE [cache |-> userCache, timers |-> timers, stored |-> storedAt,
                        result |-> p.cached]
       IN  /\ userCache' = fin.cache
           /\ timers' = fin.timers
           /\ storedAt' = fin.stored
           /\ insertedAt' = IF p.userId \in DOMAIN fin.cache \ DOMAIN userCache
                            THEN MapSet(insertedAt, p.userId, now)
                            ELSE insertedAt
           /\ out' = IF p.kind = "sendMessage"
                     THEN receiveMessage(p, fin.result) \cup acknowledge(p)
                     ELSE {}
    /\ pending' = pending \ {p}
    /\ last' = [NoEvent EXCEPT !.op = "resume", !.conn = p.conn, !.chatId = p.chatId,
                  !.content = p.content, !.cb = p.cb, !.userId = p.userId,
                  !.fetch = outcome, !.seq = p.seq]
    /\ UNCHANGED <<workflow, status, registry, membership, rateState, now, messages,
                   nextSeq, budget>>

(***************************************************************************)
(* socket.on("markMessagesRead")                                           *)
(***************************************************************************)
MarkMessagesRead(c, chatId) ==
    /\ Ready
    /\ status[c] = "open"
    /\ Spend
    /\ LET userId == ResolveIdentity(c)
       IN  /\ out' = {[Event("messagesRead", d, c) EXCEPT
                         !.chatId = chatId, !.user = userId] : d \in IoTo(chatId)}
           /\ last' = [NoEvent EXCEPT !.op = "markMessagesRead", !.conn = c,
                         !.chatId = chatId, !.userId = userId]
    /\ UNCHANGED <<workflow, status, registry, membership, rateState, cacheState, now,
                   suspended, messages>>

(***************************************************************************)
(* socket.on("pingServer")                                                 *)
(***************************************************************************)
PingServer(c, cb) ==
    /\ Ready
    /\ status[c] = "open"
    /\ Spend
    /\ out' = IF cb THEN {[Event("ack", c, c) EXCEPT !.status = "serverTime"]} ELSE {}
    /\ last' = [NoEvent EXCEPT !.op = "pingServer", !.conn = c, !.cb = cb]
    /\ UNCHANGED <<workflow, status, registry, membership, rateState, cacheState, now,
                   suspended, messages>>

(***************************************************************************)
(* socket.on("disconnect").  socket.io has taken the socket out of every   *)
(* room before the handler runs, so the socket.leave calls of the handler  *)
(* leave it in none.  The handler is also run on a connection that is      *)
(* closed already (a second disconnect).                                   *)
(***************************************************************************)
Disconnect(c) ==
    /\ Ready
    /\ status[c] \in {"open", "closed"}
    /\ Spend
    /\ LET userId == ResolveIdentity(c)
       IN  /\ onlineUsers' = MapDelete(MapDelete(onlineUsers, userId), c)
           /\ socketIdToUserId' = MapDelete(socketIdToUserId, c)
           /\ joined' = [joined EXCEPT ![c] = {}]
           /\ userRooms' = MapDelete(userRooms, userId)
           /\ lastOp' = [q \in Ids \X Rooms |->
                           IF q[1] = userId THEN "none" ELSE lastOp[q]]
           /\ recordedBy' = Remaining(recordedBy, userRooms')
           /\ UNCHANGED hadJoined
           /\ out' = {[Event("userOffline", d, c) EXCEPT !.user = userId] :
                        d \in SocketBroadcast(c)}
           /\ last' = [NoEvent EXCEPT !.op = "disconnect", !.conn = c,
                         !.userId = userId]
    /\ status' = [status EXCEPT ![c] = "closed"]
    /\ UNCHANGED <<workflow, rateState, cacheState, now, suspended, messages>>

(***************************************************************************)
(* HTTP POST /:chatId/message (sendMessage of the message controller).     *)
(* isAuthenticated has set req.id to a user of the store.  Message.create   *)
(* resolves with the new document or rejects (`created`); catchAsync hands *)
(* a rejection to the error middleware and the rest of the handler is not  *)
(* run.                                                                    *)
(***************************************************************************)
HttpReceiveMessage(m, chatId, sender) ==
    {[Event("receiveMessage", d, "http") EXCEPT
        !.chatId = chatId, !.sender = sender, !.name = UserName(sender),
        !.content = m.content, !.status = "sent"] : d \in IoTo(chatId)}

HttpRejected(senderId, chatId, content) ==
    \/ content = None \/ chatId = None
    \/ ContentLength(content) > MaxContentLength
    \/ ContentLength(content) < 1
    \/ senderId \notin StoreUsers \/ chatId \notin Chats

\* the broadcast without the await on Message.create: it goes out whether or
\* not the message was stored
HttpSendMessageUnlinked(senderId, chatId, content, created) ==
    /\ Ready
    /\ Spend
    /\ last' = [NoEvent EXCEPT !.op = "httpSendMessage", !.chatId = chatId,
                  !.content = content, !.userId = senderId,
                  !.persist = IF HttpRejected(senderId, chatId, content) THEN None
                              ELSE IF created THEN "ok" ELSE "failed"]
    /\ IF HttpRejected(senderId, chatId, content)
       THEN /\ out' = {[Event("httpError", "http", "http") EXCEPT !.chatId = chatId]}
            /\ UNCHANGED messages
       ELSE LET message == [chat |-> chatId, sender |-> senderId,
                            content |-> content, status |-> "sent"]
            IN  /\ messages' = IF created THEN Append(messages, message) ELSE messages
                /\ out' = HttpReceiveMessage(message, chatId, senderId)
    /\ UNCHANGED <<workflow, status, registry, membership, rateState, cacheState, now, suspended>>

HttpSendMessage(senderId, chatId, content, created) ==
    /\ Ready
    /\ Spend
    /\ last' = [NoEvent EXCEPT !.op = "httpSendMessage", !.chatId = chatId,
                  !.content = content, !.userId = senderId,
                  !.persist = IF HttpRejected(senderId, chatId, content) THEN None
                              ELSE IF created THEN "ok" ELSE "failed"]
    /\ IF HttpRejected(senderId, chatId, content) \/ ~created
       THEN /\ out' = {[Event("httpError", "http", "http") EXCEPT !.chatId = chatId]}
            /\ UNCHANGED messages
       ELSE LET message == [chat |-> chatId, sender |-> senderId,
                            content |-> content, status |-> "sent"]
            IN  /\ messages' = Append(messages, message)
                /\ out' = HttpReceiveMessage(message, chatId, senderId)
    /\ UNCHANGED <<workflow, status, registry, membership, rateState, cacheState, now, suspended>>

(***************************************************************************)
(* HTTP POST /mark-read/:chatId (markMessagesAsRead).                      *)
(***************************************************************************)
\* $set: { status: "delivered" } where the code sets "read"
updateManyDelivered(msgs, chatId, userId) ==
    [i \in DOMAIN msgs |->
        IF msgs[i].chat = chatId /\ msgs[i].sender # userId /\ msgs[i].status = "sent"
        THEN [msgs[i] EXCEPT !.status = "delivered"]
        ELSE msgs[i]]

updateManyRead(msgs, chatId, userId) ==
    [i \in DOMAIN msgs |->
        IF msgs[i].chat = chatId /\ msgs[i].sender # userId /\ msgs[i].status = "sent"
        THEN [msgs[i] EXCEPT !.status = "read"]
        ELSE msgs[i]]

HttpMarkMessagesAsRead(userId, chatId) ==
    /\ Ready
    /\ Spend
    /\ messages' = updateManyRead(messages, chatId, userId)
    /\ out' = {[Event("messagesRead", d, "http") EXCEPT
                  !.chatId = chatId, !.user = userId] : d \in IoTo(chatId)}
    /\ last' = [NoEvent EXCEPT !.op = "httpMarkMessagesAsRead", !.chatId = chatId,
                  !.userId = userId]
    /\ UNCHANGED <<workflow, status, registry, membership, rateState, cacheState, now, suspended>>

(***************************************************************************)
(* Time.  The clock moves by TickStep, or straight to the next deadline,   *)
(* and never past a deadline; a due timer runs before anything else.       *)
(***************************************************************************)
Deadlines == {t.at : t \in BagToSet(timers)}

Tick ==
    /\ Ready
    /\ Spend
    /\ \A d \in Deadlines : now + TickStep <= d
    /\ now' = now + TickStep
    /\ out' = {}
    /\ last' = [NoEvent EXCEPT !.op = "tick"]
    /\ UNCHANGED <<workflow, status, registry, membership, rateState, cacheState,
                   suspended, messages>>

AdvanceToTimer ==
    /\ Ready
    /\ Deadlines # {}
    /\ now' = CHOOSE d \in Deadlines : \A e \in Deadlines : d <= e
    /\ out' = {}
    /\ last' = [NoEvent EXCEPT !.op = "tick"]
    /\ UNCHANGED <<workflow, status, registry, membership, rateState, cacheState,
                   suspended, messages, budget>>

\* setTimeout(() => { userCache.delete(userId) }, 5 * 60 * 1000)
TimerFire(t) ==
    /\ t \in BagToSet(timers)
    /\ t.at <= now
    /\ userCache' = MapDelete(userCache, t.userId)
    /\ timers' = timers (-) SetToBag({t})
    /\ out' = {}
    /\ last' = [NoEvent EXCEPT !.op = "timer", !.userId = t.userId]
    /\ UNCHANGED <<workflow, storedAt, insertedAt, status, registry, membership, rateState,
                   now, suspended, messages, budget>>

(***************************************************************************)
(* Spec: the socket layer from server start.  Two connections send every   *)
(* socket event and handlers waiting for the store resume in any order.    *)
(***************************************************************************)
SendInputs == {<<"r1", "hi", TRUE>>, <<"r1", "hi", FALSE>>, <<None, "hi", TRUE>>}
Outcomes == {"hit", "found", "null", "throw"}

SocketEvent(c) ==
    \/ \E u \in SocketUserIds \cup {None} : Authenticate(c, u)
    \/ \E r \in Rooms : JoinChat(c, r)
    \/ \E r \in Rooms : LeaveChat(c, r)
    \/ \E ev \in {"typing", "stopTyping"} : Typing(c, ev, "r1")
    \/ \E i \in SendInputs : SendMessage(c, i[1], i[2], i[3])
    \/ MarkMessagesRead(c, "r1")
    \/ PingServer(c, TRUE)
    \/ Disconnect(c)

Next ==
    \/ \E c \in Conns : Connect(c)
    \/ \E c \in Conns : SocketEvent(c)
    \/ \E p \in pending, o \in Outcomes : ResumeHandler(p, o)

Spec == Init /\ [][Next]_vars

(***************************************************************************)
(* SpecChat: the socket layer from a session under way.                    *)
(***************************************************************************)
NextChat ==
    \/ \E c \in Conns : SocketEvent(c)
    \/ \E p \in pending, o \in Outcomes : ResumeHandler(p, o)

SpecChat == EstablishedWith(MaxChatEvents) /\ [][NextChat]_vars

(***************************************************************************)
(* SpecRate: the rate limiter.  From a session under way the connections   *)
(* send sendMessage events, complete or without chatId, while the clock    *)
(* advances in half windows.  A connection sends its next event once the   *)
(* handler of the previous one has resumed (the continuation never touches *)
(* messageRateLimits).                                                     *)
(***************************************************************************)
NextRate ==
    \/ /\ pending = {}
       /\ \/ \E c \in Conns : SendMessage(c, "r1", "hi", TRUE)
          \/ SendMessage("c1", None, "hi", TRUE)
    \/ \E p \in pending, o \in Outcomes : ResumeHandler(p, o)
    \/ Tick

SpecRate == EstablishedWith(MaxRateEvents) /\ [][NextRate]_vars

(***************************************************************************)
(* SpecStore: the Message collection.  From a session under way, users of  *)
(* the store post and mark read over HTTP while the connections send       *)
(* sendMessage and markMessagesRead over the socket.                       *)
(***************************************************************************)
NextStore ==
    \/ \E u \in StoreUsers, r \in Chats, content \in {"hi", "long"},
          created \in BOOLEAN : HttpSendMessage(u, r, content, created)
    \/ \E u \in StoreUsers, r \in Chats : HttpMarkMessagesAsRead(u, r)
    \/ SendMessage("c1", "r1", "hi", FALSE)
    \/ \E p \in pending, o \in Outcomes : ResumeHandler(p, o)
    \/ \E c \in Conns : MarkMessagesRead(c, "r1")

SpecStore == EstablishedWith(MaxStoreEvents) /\ [][NextStore]_vars

(***************************************************************************)
(* SpecCache: the identity cache.  One connection authenticates and sends  *)
(* messages from server start; the clock advances in half windows and to   *)
(* the timers' deadlines, where the eviction callbacks run.                *)
(***************************************************************************)
NextCache ==
    \/ Connect("c1")
    \/ \E u \in SocketUserIds : Authenticate("c1", u)
    \/ SendMessage("c1", "r1", "hi", FALSE)
    \/ \E p \in pending, o \in Outcomes : ResumeHandler(p, o)
    \/ Tick
    \/ AdvanceToTimer
    \/ \E t \in BagToSet(timers) : TimerFire(t)

SpecCache == InitWith(MaxCacheEvents) /\ [][NextCache]_vars

(***************************************************************************)
(* SpecBurst: one identity against the limiter.  c1, bound to u1, sends    *)
(* sendMessage events while the clock advances in half windows, long       *)
(* enough for two full windows.                                            *)
(***************************************************************************)
NextBurst ==
    \/ pending = {} /\ SendMessage("c1", "r1", "hi", FALSE)
    \/ \E p \in pending, o \in Outcomes : ResumeHandler(p, o)
    \/ Tick

SpecBurst == EstablishedWith(MaxBurstEvents) /\ [][NextBurst]_vars

(***************************************************************************)
(* SpecShared: two connections of one user against the limiter.  c1 is     *)
(* bound to u1, c2 authenticates as u1 as well, and both send sendMessage  *)
(* events in any interleaving while the clock advances in half windows.    *)
(***************************************************************************)
NextShared ==
    \/ Authenticate("c2", "u1")
    \/ pending = {} /\ \E c \in Conns : SendMessage(c, "r1", "hi", FALSE)
    \/ \E p \in pending, o \in Outcomes : ResumeHandler(p, o)
    \/ Tick

SpecShared == EstablishedWith(MaxSharedEvents) /\ [][NextShared]_vars

(***************************************************************************)
(* Properties.                                                             *)
(***************************************************************************)
Count(S) == Cardinality(S)
Received(ev, d) == {e \in out : e.ev = ev /\ e.to = d}
ExpectedName(userId, fetch) ==
    IF fetch \in {"hit", "found"} THEN UserName(userId) ELSE UnknownUser
RoomScoped == {"receiveMessage", "messagesRead", "typing", "stopTyping"}

\* C2: an accepted sendMessage{chatId, content} is suspended under the identity
\* its connection resolves to (the bound userId, else the connection id), and
\* when it resumes every connection joined to chatId, the sender included,
\* gets exactly one receiveMessage with that chatId, content, senderId and the
\* name getUserDetails resolved; the callback, if any, is called once with
\* success, and nothing else is emitted.
C2_BroadcastToRoom ==
    /\ (last.op = "sendMessage" /\ last.seq # 0) =>
          \E p \in pending :
             /\ p.seq = last.seq
             /\ p.chatId = last.chatId /\ p.content = last.content /\ p.cb = last.cb
             /\ p.userId = IF last.conn \in DOMAIN socketIdToUserId
                           THEN socketIdToUserId[last.conn] ELSE last.conn
    /\ (last.op = "resume" /\ last.chatId # None) =>
          /\ \A d \in Conns :
                Count(Received("receiveMessage", d)) =
                   IF last.chatId \in joined[d] THEN 1 ELSE 0
          /\ \A e \in out :
                \/ /\ e.ev = "receiveMessage"
                   /\ e.chatId = last.chatId
                   /\ e.content = last.content
                   /\ e.senderId = last.userId
                   /\ e.name = ExpectedName(last.userId, last.fetch)
                \/ /\ e.ev = "ack"
                   /\ e.to = last.conn
                   /\ e.status = "success"
          /\ Count(Received("ack", last.conn)) = IF last.cb THEN 1 ELSE 0

\* C2 witness: u1 on c1 sent to r1 with a callback; c1 and c2, both in r1,
\* received the message under u1's name and c1 got the acknowledgement.
C2_Witness ==
    /\ last.op = "resume" /\ last.conn = "c1" /\ last.userId = "u1" /\ last.cb
    /\ \E e \in Received("receiveMessage", "c2") : e.name = UserName("u1")
    /\ Received("receiveMessage", "c1") # {}
    /\ Received("ack", "c1") # {}

\* C3: once the disconnect of a connection has been processed, no room-scoped
\* event that originates from it reaches another member of a room it had
\* joined.
C3_SilentAfterDisconnect ==
    \A e \in out :
       (/\ e.ev \in RoomScoped
        /\ e.from \in Conns
        /\ e.to # e.from
        /\ e.chatId \in hadJoined[e.from])
          => status[e.from] # "closed"

\* C4: after the disconnect of c has been processed, no entry of onlineUsers
\* or socketIdToUserId is keyed by c or maps to c, and no membership that c's
\* joinChat events recorded is left in userRooms.
C4_NoResidue ==
    \A c \in Conns :
       status[c] = "closed" =>
          /\ c \notin DOMAIN onlineUsers
          /\ \A k \in DOMAIN onlineUsers : onlineUsers[k] # c
          /\ c \notin DOMAIN socketIdToUserId
          /\ recordedBy[c] = {}

\* C5: an identity is recorded as a member of a room exactly when the last
\* joinChat/leaveChat on that (identity, room) pair was a joinChat.  (A
\* disconnect that clears the identity's entry starts the sequence afresh.)
C5_LastOpDecides ==
    \A q \in Ids \X Rooms : (q[2] \in RoomsOf(q[1])) <=> (lastOp[q] = "join")

\* C5 witness: u1 left r1 after having joined it and is no member; a second
\* leave of the same room has been processed as well.
C5_Witness ==
    /\ last.op = "leaveChat" /\ last.userId = "u1" /\ last.chatId = "r1"
    /\ lastOp[<<"u1", "r1">>] = "leave"
    /\ "r1" \notin RoomsOf("u1")
    /\ budget <= MaxChatEvents - 2

(***************************************************************************)
(* The limiter as specified: per identity, a window opens at the first     *)
(* validated sendMessage and at the first one RateWindow or more after the *)
(* window's start; WindowAt(n, id) is id's window and the number of        *)
(* attempts in it after the first n entries of the history.                *)
(***************************************************************************)
RECURSIVE WindowAt(_, _)
WindowAt(n, id) ==
    IF n = 0 THEN [start |-> 0, count |-> 0]
    ELSE LET w == WindowAt(n - 1, id)
             a == attempts[n]
         IN  IF a.id # id THEN w
             ELSE IF w.count = 0 \/ a.at - w.start >= RateWindow
                  THEN [start |-> a.at, count |-> 1]
                  ELSE [w EXCEPT !.count = @ + 1]

\* Accepted attempts of the identity of attempt n in the RateWindow ms that
\* end with attempt n, that attempt left out.
AcceptedBefore(n) ==
    Count({m \in 1..(n - 1) :
             /\ attempts[m].id = attempts[n].id
             /\ attempts[m].ok
             /\ attempts[n].at - attempts[m].at < RateWindow})

\* C1 as stated: in any 1-second span at most 5 sendMessage calls of one
\* identity succeed: a call succeeds exactly when fewer than 5 calls of the
\* identity succeeded in the second before it.
C1_AnyOneSecondSpan ==
    \A n \in 1..Len(attempts) : attempts[n].ok <=> AcceptedBefore(n) < RateLimit

\* C1 amended: the window is the limiter's own, anchored at the first call
\* after the previous window elapsed.  A call succeeds exactly when it is
\* among the first 5 of its window; a later call of the window is rejected
\* with RATE_LIMIT; the first call RateWindow ms or more after the window's
\* start succeeds; a stored count above 5 means the latest call was rejected.
C1_FixedWindow ==
    /\ \A n \in 1..Len(attempts) :
          attempts[n].ok <=> WindowAt(n, attempts[n].id).count <= RateLimit
    /\ \A id \in DOMAIN messageRateLimits :
          /\ messageRateLimits[id].count = WindowAt(Len(attempts), id).count
          /\ messageRateLimits[id].timestamp = WindowAt(Len(attempts), id).start
    /\ (last.op = "sendMessage" /\ last.userId # None) =>
          LET a == attempts[Len(attempts)]
          IN  /\ a.id = last.userId
              /\ (~a.ok) <=> (out = {[Event("error", last.conn, last.conn)
                                        EXCEPT !.code = "RATE_LIMIT"]})

\* C1 witness: u1 had a sixth call rejected in a window and a later call
\* accepted once the window had elapsed.
C1_Witness ==
    \E n \in 1..Len(attempts) :
       /\ attempts[n].id = "u1" /\ ~attempts[n].ok
       /\ WindowAt(n, "u1").count = RateLimit + 1
       /\ \E m \in (n + 1)..Len(attempts) :
             /\ attempts[m].id = "u1" /\ attempts[m].ok
             /\ attempts[m].at - WindowAt(n, "u1").start >= RateWindow

\* C7: a sendMessage that is rejected (chatId or content missing, or the
\* sender over the limit of its window) emits one error with the matching
\* code to its own connection and nothing else: no receiveMessage, no ack, no
\* suspended handler; registry, memberships and connection state stay as they
\* were and the connection stays open.
RejectionCode ==
    IF last.chatId = None \/ last.content = None THEN "MISSING_FIELDS"
    ELSE IF WindowAt(Len(attempts), last.userId).count > RateLimit THEN "RATE_LIMIT"
    ELSE None

C7_Rejected == last.op = "sendMessage" /\ RejectionCode # None

C7_RejectionIsLocal ==
    [][C7_Rejected' =>
          /\ out' = {[Event("error", last'.conn, last'.conn)
                        EXCEPT !.code = RejectionCode']}
          /\ UNCHANGED <<onlineUsers, socketIdToUserId, userRooms, joined,
                         status, pending>>
          /\ status'[last'.conn] = "open"]_vars

\* C7 witness: c1, bound to u1 and in r1 with c2, sent a complete sendMessage
\* with a callback and got RATE_LIMIT.
C7_Witness ==
    /\ C7_Rejected /\ RejectionCode = "RATE_LIMIT"
    /\ last.conn = "c1" /\ last.cb /\ last.chatId = "r1"
    /\ RoomMembers("r1") = Conns
    /\ \E e \in out : e.ev = "error" /\ e.to = "c1" /\ e.code = "RATE_LIMIT"

\* C6: a profile stored at t0 answers every getUserDetails call in
\* [t0, t0 + CacheTtl) from the cache, with no query of the user store, and
\* the first call at or after t0 + CacheTtl queries the store again.
C6_ServedForTtl ==
    (last.op \in {"authenticate", "sendMessage"} /\ last.fetch # None
        /\ last.userId \in DOMAIN storedAt)
       => (last.fetch = "cached" <=> now < storedAt[last.userId] + CacheTtl)

\* C8: a receiveMessage broadcast follows the persisting of its message
\* (room, sender, content) and carries status sent.
C8_PersistedThenBroadcast ==
    \A e \in out :
       e.ev = "receiveMessage" =>
          /\ \E i \in DOMAIN messages :
                /\ messages[i].chat = e.chatId
                /\ messages[i].sender = e.sender
                /\ messages[i].content = e.content
          /\ e.status = "sent"

\* C9: markRead of room R by user u sets to read every message of R that u
\* did not send and that is sent, changes no other message, and broadcasts
\* messagesRead{R, u} to the room.
C9_MarkOp == last.op \in {"markMessagesRead", "httpMarkMessagesAsRead"}

C9_MarkReadTransitions ==
    [][C9_MarkOp' =>
          /\ DOMAIN messages' = DOMAIN messages
          /\ \A i \in DOMAIN messages :
                messages'[i] =
                   IF /\ messages[i].chat = last'.chatId
                      /\ messages[i].sender # last'.userId
                      /\ messages[i].status = "sent"
                   THEN [messages[i] EXCEPT !.status = "read"]
                   ELSE messages[i]
          /\ \A d \in Conns :
                (last'.chatId \in joined[d]) <=>
                   \E e \in out' : /\ e.ev = "messagesRead" /\ e.to = d
                                   /\ e.chatId = last'.chatId
                                   /\ e.user = last'.userId]_vars

\* C10: a message is created with status sent; a step changes a status only
\* from sent to read; no message is removed; no status is ever delivered.
C10_StatusForward ==
    [][/\ Len(messages') >= Len(messages)
       /\ \A i \in DOMAIN messages' :
             /\ messages'[i].status # "delivered"
             /\ IF i \in DOMAIN messages
                THEN \/ messages'[i].status = messages[i].status
                     \/ /\ messages[i].status = "sent"
                        /\ messages'[i].status = "read"
                ELSE messages'[i].status = "sent"]_vars

\* C10 witness: a message has been read, a later one is still sent, and a
\* second mark-read has left the read one read.
C10_Witness ==
    /\ last.op = "httpMarkMessagesAsRead"
    /\ \E i, j \in DOMAIN messages :
          /\ i < j
          /\ messages[i].status = "read"
          /\ messages[j].status = "sent"

\* C11: a userId of the registry maps to one connection, and right after
\* authenticate{userId} from connection c has been processed the registry maps
\* userId to c and c to userId, whichever connection held userId before.
C11_LastAuthenticateWins ==
    /\ \A u \in Users :
          u \in DOMAIN onlineUsers =>
             /\ onlineUsers[u] \in Conns
             /\ Count({c \in Conns : onlineUsers[u] = c}) = 1
    /\ (last.op = "authenticate" /\ last.userId # None) =>
          /\ last.userId \in DOMAIN onlineUsers
          /\ onlineUsers[last.userId] = last.conn
          /\ last.conn \in DOMAIN socketIdToUserId
          /\ socketIdToUserId[last.conn] = last.userId

\* C11 witness: c1 authenticated as u1 earlier and is still bound to it; c2
\* has just authenticated as u1 and is now u1's connection.
C11_Witness ==
    /\ last.op = "authenticate" /\ last.conn = "c2" /\ last.userId = "u1"
    /\ "c1" \in DOMAIN socketIdToUserId /\ socketIdToUserId["c1"] = "u1"
    /\ onlineUsers["u1"] = "c2"

\* C12: the disconnect of a connection c emits userOffline once, to every
\* other connection and not to c, and the payload is the identity c resolved
\* to before the handler unbound it: the userId c was bound to, or c itself
\* when c never authenticated.
C12_UserOfflineOnce ==
    [][(last'.op = "disconnect" /\ status[last'.conn] = "open") =>
          LET c == last'.conn
              resolved == IF c \in DOMAIN socketIdToUserId
                          THEN socketIdToUserId[c] ELSE c
          IN  /\ out' = {[Event("userOffline", d, c) EXCEPT !.user = resolved] :
                            d \in {x \in Conns \ {c} : status[x] = "open"}}
              /\ \A d \in Conns \ {c} :
                    status[d] = "open" =>
                       Count({e \in out' : e.ev = "userOffline" /\ e.to = d}) = 1
              /\ {e \in out' : e.to = c} = {}]_vars

\* C12 witness: c1, bound to u1, disconnected while c2 was connected; c2 got
\* userOffline with u1 and c1 got nothing.
C12_Witness ==
    /\ last.op = "disconnect" /\ last.conn = "c1" /\ last.userId = "u1"
    /\ status["c2"] = "open"
    /\ \E e \in Received("userOffline", "c2") : e.user = "u1"
    /\ Received("userOffline", "c1") = {}

\* C13: when the lookup of the sender's profile returns nothing or throws,
\* the sendMessage still goes through: every member of the room gets
\* receiveMessage with sender {id: the sender's identity, name: "Unknown
\* User"}, the callback (if any) is acknowledged, and no error is emitted.
C13_UnknownUserFallback ==
    (last.op = "resume" /\ last.chatId # None /\ last.fetch \in {"null", "throw"}) =>
       /\ \A d \in RoomMembers(last.chatId) :
             \E e \in Received("receiveMessage", d) :
                /\ e.sender = last.userId
                /\ e.senderId = last.userId
                /\ e.name = UnknownUser
                /\ e.content = last.content
       /\ \A e \in out :
             /\ e.ev # "error"
             /\ e.ev = "receiveMessage" => (e.sender = last.userId /\ e.name = UnknownUser)
       /\ last.cb => \E e \in Received("ack", last.conn) : e.status = "success"

\* C13 witness: c1 authenticated as u3, which the user store does not hold,
\* and sent to r1 with a callback; the lookup returned null, c2 received the
\* message from "Unknown User" with id u3 and c1 was acknowledged.
C13_Witness ==
    /\ last.op = "resume" /\ last.fetch = "null" /\ last.userId = "u3"
    /\ last.conn = "c1" /\ last.cb
    /\ \E e \in Received("receiveMessage", "c2") :
          e.sender = "u3" /\ e.name = UnknownUser
    /\ Received("ack", "c1") # {}

\* C14: the receiveMessage broadcasts of two accepted sendMessage events of
\* one connection are emitted in the order the events were sent: when the
\* handler of a sendMessage resumes and broadcasts, no earlier sendMessage of
\* the same connection is still waiting for its profile.
C14_BroadcastsInOrder ==
    (last.op = "resume" /\ last.chatId # None) =>
       \A q \in pending :
          (q.kind = "sendMessage" /\ q.conn = last.conn) => q.seq > last.seq

\* The start of the limiter window attempt n fell into.
WindowStart(n) == WindowAt(n, attempts[n].id).start

\* C15: the limiter's window is fixed and anchored at the time of its first
\* message: the stored timestamp is that time, never more than 5 sendMessage
\* events of an identity are accepted in one window, and in a span shorter
\* than 1000 ms, which may straddle a window boundary, no more than 10 are.
C15_FixedWindowBurst ==
    /\ \A id \in DOMAIN messageRateLimits :
          \E n \in 1..Len(attempts) :
             /\ attempts[n].id = id /\ attempts[n].ok
             /\ attempts[n].at = messageRateLimits[id].timestamp
             /\ WindowAt(n, id).count = 1
             /\ \A m \in (n + 1)..Len(attempts) :
                   attempts[m].id = id =>
                      attempts[m].at - attempts[n].at < RateWindow
    /\ \A n \in 1..Len(attempts) :
          /\ Count({m \in 1..n : /\ attempts[m].id = attempts[n].id
                                  /\ attempts[m].ok
                                  /\ WindowStart(m) = WindowStart(n)}) <= RateLimit
          /\ attempts[n].ok => AcceptedBefore(n) + 1 <= 2 * RateLimit

\* C15 witness: 9 sendMessage events of u1 were accepted within less than
\* 1000 ms, the first of them in an earlier window than the last.
C15_Witness ==
    \E n \in 1..Len(attempts) :
       /\ attempts[n].id = "u1" /\ attempts[n].ok
       /\ AcceptedBefore(n) + 1 = 2 * RateLimit - 1
       /\ \E m \in 1..(n - 1) :
             /\ attempts[m].id = "u1" /\ attempts[m].ok
             /\ attempts[n].at - attempts[m].at < RateWindow
             /\ WindowStart(m) # WindowStart(n)

\* The attempts that fell into the limiter window of attempt n, whatever the
\* connection they came from.
SameWindow(n) ==
    {m \in 1..Len(attempts) : /\ attempts[m].id = attempts[n].id
                              /\ WindowStart(m) = WindowStart(n)}

\* C16: the rate table is one table keyed by resolved identity and each
\* sendMessage checks and records in one step: the table has one entry per
\* identity that sent, its count is the number of attempts of the identity's
\* current window over all connections, and the connections bound to one
\* userId together have at most 5 sendMessage events accepted per window.
C16_SharedRateTable ==
    /\ DOMAIN messageRateLimits = {attempts[n].id : n \in 1..Len(attempts)}
    /\ \A n \in 1..Len(attempts) :
          /\ Count({m \in SameWindow(n) : attempts[m].ok}) <= RateLimit
          /\ attempts[n].ok <=> Count({m \in SameWindow(n) : m <= n}) <= RateLimit
    /\ Len(attempts) > 0 =>
          messageRateLimits[attempts[Len(attempts)].id].count
             = Count(SameWindow(Len(attempts)))

\* C16 witness: c1 and c2, both bound to u1, each had a sendMessage accepted
\* in one window, and a sixth sendMessage of u1 in that window was rejected.
C16_Witness ==
    /\ "c2" \in DOMAIN socketIdToUserId /\ socketIdToUserId["c2"] = "u1"
    /\ \E n \in 1..Len(attempts) :
          /\ attempts[n].id = "u1" /\ ~attempts[n].ok
          /\ \E i, j \in SameWindow(n) :
                /\ attempts[i].conn = "c1" /\ attempts[i].ok
                /\ attempts[j].conn = "c2" /\ attempts[j].ok

\* C17: joinChat, leaveChat, sendMessage, markMessagesRead and disconnect act
\* under the userId the latest authenticate with a userId bound to the
\* connection, or under the connection id when there is none: the binding is
\* written by such an authenticate and removed by disconnect alone, the room
\* table, the rate table and the payloads of messagesRead and userOffline
\* carry that identity.
C17_ResolvedIdentity ==
    [][LET c == last'.conn
           id == IF c \in DOMAIN socketIdToUserId THEN socketIdToUserId[c] ELSE c
           validSend == /\ last'.op = "sendMessage"
                        /\ last'.chatId # None /\ last'.content # None
           firstDisconnect == last'.op = "disconnect" /\ status[c] = "open"
       IN  /\ (\/ last'.op \in {"joinChat", "leaveChat", "markMessagesRead"}
               \/ validSend
               \/ firstDisconnect) => last'.userId = id
           /\ last'.op = "joinChat" =>
                 id \in DOMAIN userRooms' /\ last'.chatId \in userRooms'[id]
           /\ last'.op = "leaveChat" =>
                 (id \in DOMAIN userRooms' => last'.chatId \notin userRooms'[id])
           /\ validSend =>
                 /\ Len(attempts') = Len(attempts) + 1
                 /\ attempts'[Len(attempts')].id = id
                 /\ id \in DOMAIN messageRateLimits'
           /\ (last'.op = "markMessagesRead" \/ firstDisconnect) =>
                 \A e \in out' : e.user = id
           /\ socketIdToUserId' # socketIdToUserId =>
                 last'.op \in {"authenticate", "disconnect"}
           /\ last'.op = "authenticate" =>
                 socketIdToUserId' =
                    IF last'.userId = None THEN socketIdToUserId
                    ELSE MapSet(socketIdToUserId, c, last'.userId)]_vars

\* C17 witness: c1, bound to u1 first and to u3 by a later authenticate, joined
\* r2 and is tracked under u3; c2, which never authenticated, is room-tracked
\* and rate-limited under c2.
C17_Witness ==
    /\ last.op = "joinChat" /\ last.conn = "c1" /\ last.userId = "u3"
    /\ last.chatId \in RoomsOf("u3")
    /\ "c2" \notin DOMAIN socketIdToUserId
    /\ "c2" \in DOMAIN userRooms
    /\ "c2" \in DOMAIN messageRateLimits

\* C18: typing and stopTyping for room R reach every connection joined to R
\* but the sending one, as the same event for the same room, and leave the
\* registry, the room memberships, the rate state and the identity cache as
\* they were.
C18_TypingFrame ==
    [][last'.op \in {"typing", "stopTyping"} =>
          /\ \A d \in Conns :
                (d # last'.conn /\ last'.chatId \in joined[d]) <=>
                   \E e \in out' : e.to = d
          /\ \A e \in out' :
                e.ev = last'.op /\ e.chatId = last'.chatId /\ e.from = last'.conn
          /\ UNCHANGED <<onlineUsers, socketIdToUserId, userRooms, joined,
                         messageRateLimits, userCache, timers, pending>>]_vars

\* C18 witness: c1 and c2 are in r1; c1 sent typing for r1, c2 received it and
\* c1 did not.
C18_Witness ==
    /\ last.op = "typing" /\ last.conn = "c1" /\ last.chatId = "r1"
    /\ "r1" \in joined["c1"]
    /\ Received("typing", "c2") # {}
    /\ Received("typing", "c1") = {}

\* C19: an authenticate whose userId is falsy is ignored without a word:
\* registry, room memberships, rate state and identity cache stay as they
\* were, no lookup of the user store is started, and nothing (no error) is
\* emitted.
C19_FalsyAuthenticateIgnored ==
    [][(last'.op = "authenticate" /\ last'.userId = None) =>
          /\ UNCHANGED <<onlineUsers, socketIdToUserId, userRooms, joined,
                         messageRateLimits, userCache, timers>>
          /\ pending' = pending
          /\ last'.fetch = None
          /\ out' = {}]_vars

\* C19 witness: c1, bound to u1, sent authenticate without a userId and is
\* still bound to u1, with no handler waiting for the user store.
C19_Witness ==
    /\ last.op = "authenticate" /\ last.userId = None /\ last.conn = "c1"
    /\ socketIdToUserId["c1"] = "u1" /\ onlineUsers["u1"] = "c1"
    /\ pending = {}

\* C20: no identity of the room table is mapped to an empty set of rooms; a
\* leaveChat that takes an identity's last room away removes its entry, one
\* that leaves it other rooms keeps the entry with those rooms, and one for
\* an identity without an entry leaves the table as it was.
C20_NoEmptyRoomSet ==
    [][/\ \A id \in DOMAIN userRooms' : userRooms'[id] # {}
       /\ last'.op = "leaveChat" =>
             LET id == last'.userId
                 chatId == last'.chatId
             IN  IF id \notin DOMAIN userRooms THEN userRooms' = userRooms
                 ELSE IF userRooms[id] \ {chatId} = {}
                      THEN /\ id \notin DOMAIN userRooms'
                           /\ \A k \in DOMAIN userRooms \ {id} :
                                 k \in DOMAIN userRooms' /\ userRooms'[k] = userRooms[k]
                      ELSE userRooms' =
                              [userRooms EXCEPT ![id] = @ \ {chatId}]]_vars

\* C20 witness: u1 joined r2 next to r1 and left both; the leave of the last
\* room took u1's entry away while c2 kept its own.
C20_Witness ==
    /\ last.op = "leaveChat" /\ last.userId = "u1"
    /\ lastOp[<<"u1", "r1">>] = "leave" /\ lastOp[<<"u1", "r2">>] = "leave"
    /\ "u1" \notin DOMAIN userRooms
    /\ "c2" \in DOMAIN userRooms

\* C21: when the user store has no user for a userId, getUserDetails returns
\* null (the message goes out under "Unknown User"), stores nothing in the
\* cache and schedules no timer; a userId the store does not hold is never
\* in the cache, and every lookup of it queries the store.
C21_NoNegativeCaching ==
    [][/\ (last'.op = "resume" /\ last'.fetch = "null") =>
             /\ userCache' = userCache
             /\ timers' = timers
             /\ \A e \in out' : e.ev = "receiveMessage" => e.name = UnknownUser
       /\ \A u \in Users \ StoreUsers :
             /\ u \notin DOMAIN userCache'
             /\ \A t \in BagToSet(timers') : t.userId # u
       /\ (/\ last'.op \in {"authenticate", "sendMessage"}
           /\ last'.fetch # None
           /\ last'.userId \in Users \ StoreUsers) => last'.fetch = "query"]_vars

\* C21 witness: c1 authenticated as u3, which the store does not hold; the
\* lookup of the authenticate has settled, and the lookup of a later
\* sendMessage queried the store again and got null.
C21_Witness ==
    /\ last.op = "resume" /\ last.fetch = "null" /\ last.userId = "u3"
    /\ last.chatId # None /\ last.seq >= 2
    /\ pending = {}
    /\ "u3" \notin DOMAIN userCache

\* C22: each store of a profile adds exactly one eviction timer, due at the
\* time of the store + CacheTtl; a lookup served from the cache adds and
\* moves no timer; and an entry is evicted CacheTtl after it was inserted,
\* whatever lookups it served since.
C22_OneTimerPerStore ==
    [][/\ (last'.op = "resume" /\ last'.fetch = "found") =>
             timers' = timers (+) SetToBag({[userId |-> last'.userId,
                                             at |-> now + CacheTtl]})
       /\ (\/ last'.op \in {"authenticate", "sendMessage"} /\ last'.fetch = "cached"
           \/ last'.op = "resume" /\ last'.fetch = "hit") => timers' = timers
       /\ (last'.op = "timer" /\ last'.userId \in DOMAIN userCache) =>
             now = insertedAt[last'.userId] + CacheTtl]_vars

\* C23 as stated: when the persisting of a chat message fails, the
\* receiveMessage broadcast of that message still reaches the room.
C23_BroadcastDespiteFailure ==
    (last.op = "httpSendMessage" /\ last.persist = "failed") =>
       \A d \in RoomMembers(last.chatId) :
          \E e \in Received("receiveMessage", d) : e.content = last.content

\* C23 amended: the HTTP sendMessage broadcasts after Message.create has
\* succeeded: when the persisting fails nothing is stored, no receiveMessage
\* is emitted and the request ends in an error; a broadcast of the HTTP path
\* follows the append of its message.  The socket sendMessage never persists:
\* it changes no stored message, whatever it broadcasts.
C23_BroadcastAfterCreate ==
    [][/\ (last'.op = "httpSendMessage" /\ last'.persist = "failed") =>
             /\ messages' = messages
             /\ out' = {[Event("httpError", "http", "http")
                           EXCEPT !.chatId = last'.chatId]}
       /\ (last'.op = "httpSendMessage"
             /\ \E e \in out' : e.ev = "receiveMessage") =>
             /\ last'.persist = "ok"
             /\ messages' = Append(messages,
                                   [chat |-> last'.chatId, sender |-> last'.userId,
                                    content |-> last'.content, status |-> "sent"])
       /\ last'.op \in {"sendMessage", "resume"} => messages' = messages]_vars

\* C23 witness: u1 posted to r1, where c1 and c2 are joined, Message.create
\* failed, and neither connection received the message.
C23_Witness ==
    /\ last.op = "httpSendMessage" /\ last.persist = "failed"
    /\ last.chatId = "r1" /\ last.userId = "u1"
    /\ RoomMembers("r1") = Conns
    /\ \A d \in Conns : Received("receiveMessage", d) = {}

\* C24: a sendMessage for room R leads to a receiveMessage broadcast to R only
\* if its connection is joined to R: a receiveMessage that a member of R
\* receives from a connected sender comes from a connection that is joined to
\* R, so a connection that never joined R, or has left it, reaches nobody in R.
C24_SendRequiresMembership ==
    \A e \in out :
       (e.ev = "receiveMessage" /\ e.from \in Conns /\ status[e.from] = "open") =>
          e.chatId \in joined[e.from]

\* C25: when two connected connections are bound to the same userId u, the
\* disconnect of one of them leaves the other's state whole: u keeps a
\* presence entry, which points to the remaining connection, and the
\* memberships recorded through the remaining connection stay in userRooms.
C25_OtherConnectionIntact ==
    [][\A c, d \in Conns :
          (/\ last'.op = "disconnect" /\ last'.conn = c /\ d # c
           /\ status[c] = "open" /\ status[d] = "open"
           /\ c \in DOMAIN socketIdToUserId /\ d \in DOMAIN socketIdToUserId
           /\ socketIdToUserId[c] = socketIdToUserId[d]) =>
             LET u == socketIdToUserId[d]
             IN  /\ u \in DOMAIN onlineUsers'
                 /\ onlineUsers'[u] = d
                 /\ recordedBy[d] \subseteq Pairs(userRooms')]_vars

\* C26: every presence entry keyed by a userId, onlineUsers[u] = c, names a
\* connection c that is connected and is bound to u at present
\* (socketIdToUserId[c] = u).
C26_RegistryConsistent ==
    \A u \in Users :
       u \in DOMAIN onlineUsers =>
          LET c == onlineUsers[u]
          IN  /\ c \in Conns
              /\ status[c] = "open"
              /\ c \in DOMAIN socketIdToUserId
              /\ socketIdToUserId[c] = u

\* The start of the rate-limit window of connection c after the first n
\* entries of the history: a window opens at c's first validated sendMessage
\* and at the first one RateWindow or more after the window's start.
RECURSIVE ConnWindowStart(_, _)
ConnWindowStart(n, c) ==
    IF n = 0 THEN -RateWindow
    ELSE LET s == ConnWindowStart(n - 1, c)
             a == attempts[n]
         IN  IF a.conn = c /\ a.at - s >= RateWindow THEN a.at ELSE s

\* C27: within one rate-limit window a connection has at most 5 sendMessage
\* events accepted, also when an authenticate in the middle of the window
\* changes the identity it resolves to.
C27_PerConnectionLimit ==
    \A n \in 1..Len(attempts) :
       LET c == attempts[n].conn
       IN  Count({m \in 1..n : /\ attempts[m].conn = c
                               /\ attempts[m].ok
                               /\ ConnWindowStart(m, c) = ConnWindowStart(n, c)})
              <= RateLimit

\* C28: also when lookups of one uncached userId overlap, at most one
\* eviction timer is pending per userId, and an eviction never comes earlier
\* than CacheTtl after the latest store of the userId's profile.
C28_OneTimerPerUser ==
    /\ \A u \in Users :
          /\ Count({t \in BagToSet(timers) : t.userId = u}) <= 1
          /\ \A t \in BagToSet(timers) : t.userId = u => CopiesIn(t, timers) = 1
    /\ (last.op = "timer" /\ last.userId \in DOMAIN storedAt) =>
          now >= storedAt[last.userId] + CacheTtl


(***************************************************************************)
(* The mentor workflow of project.controller.js and createGroup of         *)
(* chat.controller.js.  A handler is split where it awaits the database:   *)
(* its prefix reads the Project document and checks it, a later step saves *)
(* the document it read, and createGroup looks for the chat in one step    *)
(* and creates it in another.  The repository does not contain the ODM, so *)
(* the save of a document that was changed in the database since it was    *)
(* read either goes through or is refused with a version error.            *)
(***************************************************************************)
ProjectIds == {"p1"}
Mentors == {"m1", "m2"}                 \* users with role "mentor"
Requesters == {"u1"}                    \* users with role "student"
Accounts == Mentors \cup Requesters     \* documents of the User collection
Decisions == {"accept", "reject", "later"}

socketSide == <<status, registry, membership, rateState, cacheState, now,
                suspended, messages>>

Includes(seq, x) == \E i \in DOMAIN seq : seq[i] = x
Filter(seq, x) == SelectSeq(seq, LAMBDA id : id # x)
Requested(project) ==
    {project.mentorRequests[i] : i \in DOMAIN project.mentorRequests}
ChatsOf(p) == {i \in DOMAIN chats : chats[i].project = p}
Stale(f) == f.doc.version # projects[f.project].version
CanCall == Cardinality(calls) < MaxInFlight

\* res.status(..).json(..) or next(new AppError(..)) of the handler op
Reply(op, p, userId, decision, chat, ok) ==
    [NoEvent EXCEPT !.op = op, !.project = p, !.userId = userId,
                    !.decision = decision, !.chat = chat,
                    !.reply = IF ok THEN "ok" ELSE "error"]
\* the handler op is waiting for the database
Awaiting(op, p, userId, decision) ==
    [NoEvent EXCEPT !.op = op, !.project = p, !.userId = userId,
                    !.decision = decision]
HttpResponse(ok) == {Event(IF ok THEN "httpOk" ELSE "httpError", "http", "http")}

Call(op, p, userId, decision, pc) ==
    [id |-> nextCall, op |-> op, project |-> p, mentor |-> userId,
     decision |-> decision, pc |-> pc,
     doc |-> IF p \in DOMAIN projects THEN projects[p]
             ELSE [createdBy |-> None, assignedMentor |-> None,
                   mentorRequests |-> <<>>, status |-> None, version |-> 0]]

\* POST createProject; potentialMentor is the mentor targetFaculty matches,
\* None when targetFaculty is absent or matches no mentor
createProject(p, userId, complete, potentialMentor) ==
    /\ Ready
    /\ Spend
    /\ p \notin DOMAIN projects
    /\ IF ~complete
       THEN /\ out' = HttpResponse(FALSE)
            /\ last' = Reply("createProject", p, userId, None, 0, FALSE)
            /\ UNCHANGED projects
       ELSE /\ projects' = MapSet(projects, p,
                   [createdBy |-> userId, assignedMentor |-> None,
                    mentorRequests |-> IF potentialMentor = None THEN <<>>
                                       ELSE <<potentialMentor>>,
                    status |-> "pending",
                    version |-> IF potentialMentor = None THEN 0 ELSE 1])
            /\ out' = HttpResponse(TRUE)
            /\ last' = Reply("createProject", p, userId, None, 0, TRUE)
    /\ UNCHANGED <<chats, calls, nextCall, socketSide>>

\* the checks of requestMentor on the document it has read; mentor is the
\* user User.findOne returns, None when there is none
requestMentorRejected(p, mentor) ==
    \/ p \notin DOMAIN projects
    \/ Len(projects[p].mentorRequests) > 0
    \/ mentor = None
    \/ projects[p].assignedMentor # None
    \/ Includes(projects[p].mentorRequests, mentor)

requestMentor(p, mentor) ==
    /\ Ready
    /\ Spend
    /\ IF requestMentorRejected(p, mentor)
       THEN /\ out' = HttpResponse(FALSE)
            /\ last' = Reply("requestMentor", p, mentor, None, 0, FALSE)
            /\ UNCHANGED <<calls, nextCall>>
       ELSE /\ calls' = calls \cup {Call("requestMentor", p, mentor, None, "save")}
            /\ nextCall' = nextCall + 1
            /\ out' = {}
            /\ last' = Awaiting("requestMentor", p, mentor, None)
    /\ UNCHANGED <<projects, chats, socketSide>>

\* project.mentorRequests.push(mentor._id); await project.save()
requestMentorSave(f, saved) ==
    /\ Ready
    /\ f \in calls /\ f.op = "requestMentor" /\ f.pc = "save"
    /\ Stale(f) \/ saved
    /\ projects' = IF saved
                   THEN [projects EXCEPT ![f.project].mentorRequests = Append(@, f.mentor),
                                         ![f.project].version = @ + 1]
                   ELSE projects
    /\ calls' = calls \ {f}
    /\ out' = HttpResponse(saved)
    /\ last' = Reply("requestMentor", f.project, f.mentor, None, 0, saved)
    /\ UNCHANGED <<chats, nextCall, budget, socketSide>>

\* the checks of mentorDecision on the caller and on the document it has read
mentorDecisionRejected(p, mentorId, decision) ==
    \/ mentorId \notin Mentors
    \/ p \notin DOMAIN projects
    \/ ~Includes(projects[p].mentorRequests, mentorId)
    \/ decision \notin {"accept", "reject"}

mentorDecision(p, mentorId, decision) ==
    /\ Ready
    /\ Spend
    /\ IF mentorDecisionRejected(p, mentorId, decision)
       THEN /\ out' = HttpResponse(FALSE)
            /\ last' = Reply("mentorDecision", p, mentorId, decision, 0, FALSE)
            /\ UNCHANGED <<calls, nextCall>>
       ELSE /\ calls' = calls \cup {Call("mentorDecision", p, mentorId, decision, "save")}
            /\ nextCall' = nextCall + 1
            /\ out' = {}
            /\ last' = Awaiting("mentorDecision", p, mentorId, decision)
    /\ UNCHANGED <<projects, chats, socketSide>>

\* the document mentorDecision saves: the one it read, with the decision
Decided(f) ==
    IF f.decision = "accept"
    THEN [f.doc EXCEPT !.assignedMentor = f.mentor, !.status = "approved",
                       !.mentorRequests = <<>>]
    ELSE [f.doc EXCEPT !.mentorRequests = Filter(f.doc.mentorRequests, f.mentor),
                       !.status = "rejected"]

\* await project.save() of either branch; an accepted decision goes on to
\* createGroup, a rejected one answers
mentorDecisionSave(f, saved) ==
    /\ Ready
    /\ f \in calls /\ f.op = "mentorDecision" /\ f.pc = "save"
    /\ Stale(f) \/ saved
    /\ projects' = IF saved
                   THEN [projects EXCEPT ![f.project] =
                           [Decided(f) EXCEPT !.version = projects[f.project].version + 1]]
                   ELSE projects
    /\ IF saved /\ f.decision = "accept"
       THEN /\ calls' = (calls \ {f}) \cup {[f EXCEPT !.pc = "createGroup"]}
            /\ out' = {}
            /\ last' = Awaiting("mentorDecision", f.project, f.mentor, f.decision)
       ELSE /\ calls' = calls \ {f}
            /\ out' = HttpResponse(saved)
            /\ last' = Reply("mentorDecision", f.project, f.mentor, f.decision, 0, saved)
    /\ UNCHANGED <<chats, nextCall, budget, socketSide>>

\* a call of the exported createGroup(projectId) by any other caller
createGroupCall(p) ==
    /\ Ready
    /\ Spend
    /\ p \in DOMAIN projects
    /\ calls' = calls \cup {Call("createGroup", p, None, None, "createGroup")}
    /\ nextCall' = nextCall + 1
    /\ out' = {}
    /\ last' = Awaiting("createGroup", p, None, None)
    /\ UNCHANGED <<projects, chats, socketSide>>

\* createGroup up to the check for an existing chat: Project.findById, then
\* Chat.findOne({ project }); an existing chat is returned to the caller
createGroup(f) ==
    /\ Ready
    /\ f \in calls /\ f.pc = "createGroup"
    /\ IF ChatsOf(f.project) # {}
       THEN \E existingChat \in ChatsOf(f.project) :
              /\ calls' = calls \ {f}
              /\ out' = HttpResponse(TRUE)
              /\ last' = Reply(f.op, f.project, f.mentor, f.decision, existingChat, TRUE)
       ELSE /\ calls' = (calls \ {f}) \cup
                          {[f EXCEPT !.pc = "create", !.doc = projects[f.project]]}
            /\ out' = {}
            /\ last' = Awaiting(f.op, f.project, f.mentor, f.decision)
    /\ UNCHANGED <<projects, chats, nextCall, budget, socketSide>>

\* the rest of createGroup: Chat.create, joinedChat to every participant,
\* and the created chat returned to the caller
createGroupCreate(f) ==
    /\ Ready
    /\ f \in calls /\ f.pc = "create"
    /\ LET participants == {f.doc.createdBy, f.doc.assignedMentor} \ {None}
       IN  /\ chats' = Append(chats, [project |-> f.project,
                                      participants |-> participants])
           /\ out' = HttpResponse(TRUE) \cup
                     {[Event("joinedChat", d, "http") EXCEPT !.chatId = Len(chats) + 1]
                        : d \in UNION {IoTo(participantId) : participantId \in participants}}
    /\ calls' = calls \ {f}
    /\ last' = Reply(f.op, f.project, f.mentor, f.decision, Len(chats) + 1, TRUE)
    /\ UNCHANGED <<projects, nextCall, budget, socketSide>>

\* a request of the workflow arrives
WorkflowRequest ==
    \/ \E p \in ProjectIds, userId \in Requesters, complete \in BOOLEAN,
          potentialMentor \in Mentors \cup {None} :
          createProject(p, userId, complete, potentialMentor)
    \/ \E p \in ProjectIds, mentor \in Accounts \cup {None} : requestMentor(p, mentor)
    \/ \E p \in ProjectIds, mentorId \in Accounts, decision \in Decisions :
          mentorDecision(p, mentorId, decision)

\* a suspended handler goes on
WorkflowStep ==
    \/ \E f \in calls, saved \in BOOLEAN : requestMentorSave(f, saved)
    \/ \E f \in calls, saved \in BOOLEAN : mentorDecisionSave(f, saved)
    \/ \E f \in calls : createGroup(f)
    \/ \E f \in calls : createGroupCreate(f)

\* the requests are handled one after the other
NextMentor ==
    \/ calls = {} /\ WorkflowRequest
    \/ WorkflowStep

SpecMentor == InitWith(MaxMentorOps) /\ [][NextMentor]_vars

\* the requests and the calls of createGroup overlap
NextGroup ==
    \/ CanCall /\ WorkflowRequest
    \/ CanCall /\ \E p \in ProjectIds : createGroupCall(p)
    \/ WorkflowStep

SpecGroup == InitWith(MaxGroupOps) /\ [][NextGroup]_vars

(***************************************************************************)
(* C29: createGroup is idempotent per project: whatever the number and the *)
(* interleaving of the createGroup calls for a project, the project has at *)
(* most one Chat document and every call returns that chat.               *)
(***************************************************************************)
C29_OneChatPerProject ==
    /\ \A p \in ProjectIds : Cardinality(ChatsOf(p)) <= 1
    /\ last.chat # 0 => ChatsOf(last.project) = {last.chat}

(***************************************************************************)
(* C30: after any sequence of createProject, requestMentor and             *)
(* mentorDecision requests on a project, mentorRequests holds at most one  *)
(* mentor; an assigned mentor comes with status approved and no mentor     *)
(* request; and once a mentor is assigned, the assignment never changes    *)
(* and every further requestMentor is refused and adds no request.        *)
(***************************************************************************)
C30_MentorWorkflow ==
    [][\A p \in DOMAIN projects' :
         LET project == projects'[p]
         IN  /\ Cardinality(Requested(project)) <= 1
             /\ project.assignedMentor # None =>
                    project.status = "approved" /\ project.mentorRequests = <<>>
             /\ (p \in DOMAIN projects /\ projects[p].assignedMentor # None) =>
                    /\ project.assignedMentor = projects[p].assignedMentor
                    /\ project.mentorRequests = projects[p].mentorRequests
                    /\ (last'.op = "requestMentor" /\ last'.project = p) =>
                           last'.reply = "error"]_vars

====
